---- MODULE Spec2Model ----
(***************************************************************************)
(* op-ts: the Optional / Result monad and its pattern matcher.             *)
(*                                                                         *)
(* A JavaScript value is a record tagged by k.  A promise is modelled by   *)
(* its settled outcome [st, v]: the library never observes a promise       *)
(* before it settles, it only chains continuations on it.  An Optional is  *)
(* the record of its two fields, value (the outcome of its promise) and    *)
(* moved, plus res, which says that the instance is a _ResultImpl.         *)
(*                                                                         *)
(* origin   how the first Optional was constructed                         *)
(* optA     the first Optional                                             *)
(* optB     the Optional returned by the latest map, reduce or move        *)
(* steps    how many of these transformations have been called             *)
(* moves    how many times move has been called on optA                    *)
(* consumed how many times a move consumer was handed the value of optA   *)
(* microtasks the forEach calls started by move whose consumer has not     *)
(*          been called yet                                                *)
(* last     the latest call: its inputs, its outcome, the user functions   *)
(*          it invoked                                                     *)
(***************************************************************************)
EXTENDS Integers, Sequences, FiniteSets, TLC

VARIABLES origin, optA, optB, steps, moves, consumed, microtasks, last,
          registeredErrors, classes, props, asyncResult, promises

\* the registry of error.ts and the classes made so far
errorVars == <<registeredErrors, classes>>

\* a mounted Async component: its props, its state and its promises
asyncVars == <<props, asyncResult, promises>>

vars == <<origin, optA, optB, steps, moves, consumed, microtasks, last, errorVars,
         asyncVars>>

\* ------------------------------------------------------------------ bounds

\* longest matcher list handed to match (the code accepts up to 12)
MaxMatchers == 2
\* how many transformations (map, reduce, move) one run chains
MaxSteps == 2
\* the most Optionals handed to one concat
MaxOthers == 2
\* the most promises one Async component is handed, one after the other
MaxPromises == 2

\* ------------------------------------------------------------------ values

Undefined == [k |-> "undefined"]
Null == [k |-> "null"]
Num(i) == [k |-> "number", n |-> i]
Bool(b) == [k |-> "boolean", b |-> b]
\* the keys the objects of the model have
FieldNames == <<"deep", "num", "val">>
\* an object of class c with the own fields f (a function from keys),
\* written with its keys in the order keys
ObjWritten(c, keys, f) == [k |-> "object", cls |-> c, keys |-> keys, f |-> f]
\* an object whose keys were written in the order of FieldNames
Obj(c, f) == ObjWritten(c, SelectSeq(FieldNames, LAMBDA key : key \in DOMAIN f), f)
\* an instance of class c whose field num is i
Inst(c, i) == Obj(c, [num |-> Num(i)])
\* an Optional (or Result) instance used as a value
OptObj(o) == [k |-> "optional", o |-> o]
\* a promise used as a value: st is "resolved" or "rejected"
Prom(st, v) == [k |-> "promise", st |-> st, v |-> v]
\* what an uninterpreted user function f returns when called with arg
App(fn, arg) == [k |-> "app", fn |-> fn, arg |-> arg]

\* value == null
IsNullish(v) == v.k \in {"undefined", "null"}

\* typeof value === "object"
TypeofObject(v) == v.k \in {"null", "object", "optional", "promise"}

\* the error kinds made by ExtendRuntimeError: each extends RuntimeError
RuntimeErrorKinds == {"NullError", "ValueMovedError", "NoDefaultCaseError", "TestError"}

\* the superclass of a class: C2 extends C1; the built-in Error and the
\* RuntimeError base are roots (RuntimeError does not extend Error)
Parent(c) ==
  IF c = "C2" THEN "C1"
  ELSE IF c \in RuntimeErrorKinds THEN "RuntimeError"
  ELSE IF c = "TypeError" THEN "Error"
  ELSE "Object"

RECURSIVE IsSubclass(_, _)
IsSubclass(c, d) ==
  IF c = d THEN TRUE
  ELSE IF c = "Object" THEN FALSE
  ELSE IsSubclass(Parent(c), d)

\* value instanceof cls
InstanceOf(v, cls) == v.k = "object" /\ IsSubclass(v.cls, cls)

\* new NullError(), new ValueMovedError(), new NoDefaultCaseError()
NullError == Obj("NullError", [x \in {} |-> Undefined])
ValueMovedError == Obj("ValueMovedError", [x \in {} |-> Undefined])
NoDefaultCaseError == Obj("NoDefaultCaseError", [x \in {} |-> Undefined])

\* ---------------------------------------------------------------- matchers

Returned(v) == [st |-> "returned", v |-> v]
Thrown(v) == [st |-> "thrown", v |-> v]
Resolved(v) == [st |-> "resolved", v |-> v]
Rejected(v) == [st |-> "rejected", v |-> v]

\* _toPromise(value): the outcome of the promise it returns
RECURSIVE ToPromise(_)
ToPromise(value) ==
  IF value.k = "promise"
  THEN IF value.st = "resolved" THEN ToPromise(value.v) ELSE Rejected(value.v)
  ELSE IF InstanceOf(value, "Error") THEN Rejected(value)
  ELSE Resolved(value)

\* new _OptionalImpl(promise), moved unset
OptionalImpl(p) == [value |-> p, moved |-> FALSE, res |-> FALSE]

\* new _ResultImpl(promise)
ResultImpl(p) == [value |-> p, moved |-> FALSE, res |-> TRUE]

\* optional(value)
optional(value) == OptionalImpl(ToPromise(value))

\* empty()
empty == optional(Undefined)

\* result(value), ok(value), err(value)
result(value) == ResultImpl(ToPromise(value))
ok(value) == result(value)
err(value) == result(value)

\* isOptional(value)
isOptional(value) == ~IsNullish(value) /\ value.k = "optional"

\* the promise with the given outcome, as a value
AsPromise(out) == Prom(out.st, out.v)

\* a transducer handed to map: what it returns for arg, by its shape
RunTransducer(f, arg) ==
  LET r == App(f.name, arg) IN
  CASE f.shape = "plain" -> Returned(r)
    [] f.shape = "pending" -> Returned(Prom("resolved", r))
    [] f.shape = "optional" -> Returned(OptObj(optional(r)))
    [] f.shape = "pendingOptional" -> Returned(Prom("resolved", OptObj(optional(r))))
    [] f.shape = "optionalOfPending" -> Returned(OptObj(optional(Prom("resolved", r))))
    [] f.shape = "optionalOfOptional" -> Returned(OptObj(optional(OptObj(optional(r)))))
    [] f.shape = "undefined" -> Returned(Undefined)
    [] f.shape = "pendingRejected" -> Returned(Prom("rejected", Inst("TestError", 2)))
    [] OTHER -> Thrown(Inst("TestError", 2))

\* a handler: "apply" returns App(name, arg), "throw" throws e, "id" returns
\* its argument, "const" returns the value v, and a transducer t returns by
\* its shape
RunFun(fun, arg) ==
  CASE fun.h = "throw" -> Thrown(fun.e)
    [] fun.h = "apply" -> Returned(App(fun.name, arg))
    [] fun.h = "id" -> Returned(arg)
    [] fun.h = "const" -> Returned(fun.v)
    [] OTHER -> RunTransducer(fun.t, arg)

\* the test functions handed to predicate(...)
RunPredicate(p, v) ==
  CASE p = "isNumber" -> Returned(Bool(v.k = "number"))
    [] p = "isBoolean" -> Returned(Bool(v.k = "boolean"))
    [] p = "present" -> Returned(Bool(~IsNullish(v)))
    [] p = "absent" -> Returned(Bool(IsNullish(v)))
    [] p = "isOk" -> Returned(Bool(~InstanceOf(v, "RuntimeError")))
    [] p = "isErr" -> Returned(Bool(InstanceOf(v, "RuntimeError")))
    [] OTHER -> Thrown(Obj("Error", [x \in {} |-> Undefined]))

\* Predicate.test: an exception of the test function is "does not match"
PredicateTest(p, v) ==
  LET r == RunPredicate(p, v) IN
  IF r.st = "thrown" THEN FALSE ELSE r.v.b

\* fast-deep-equal, on the values of the model: two objects are equal when
\* they have the same constructor, the same keys, in whatever order, and
\* equal values
RECURSIVE DeepEqual(_, _)
DeepEqual(a, b) ==
  IF a.k = "object" /\ b.k = "object"
  THEN /\ a.cls = b.cls
       /\ DOMAIN a.f = DOMAIN b.f
       /\ \A key \in DOMAIN a.f : DeepEqual(a.f[key], b.f[key])
  ELSE a = b

\* the own enumerable fields of a value
Fields(v) == IF v.k = "object" THEN v.f ELSE [x \in {} |-> Undefined]

\* Object.keys(v): the keys in the order they were written
Keys(v) == IF v.k = "object" THEN v.keys ELSE <<>>

\* partialCompare(me, other): the loop over the keys of other, from key i on
RECURSIVE PartialCompare(_, _), PartialCompareKeys(_, _, _)
PartialCompareKeys(me, other, i) ==
  IF i > Len(Keys(other)) THEN TRUE
  ELSE LET meValue == IF Keys(other)[i] \in DOMAIN Fields(me)
                      THEN Fields(me)[Keys(other)[i]] ELSE Undefined
           otherValue == Fields(other)[Keys(other)[i]] IN
       IF /\ ~IsNullish(meValue) /\ TypeofObject(meValue)
          /\ ~IsNullish(otherValue) /\ TypeofObject(otherValue)
       THEN PartialCompare(meValue, otherValue)
       ELSE IF ~DeepEqual(meValue, otherValue) THEN FALSE
       ELSE PartialCompareKeys(me, other, i + 1)

PartialCompare(me, other) ==
  IF TypeofObject(me) /\ TypeofObject(other)
  THEN IF IsNullish(me) \/ IsNullish(other)
       THEN IsNullish(me) /\ IsNullish(other)
       ELSE PartialCompareKeys(me, other, 1)
  ELSE DeepEqual(me, other)

Otherwise == [c |-> "otherwise"]
Pred(p) == [c |-> "predicate", p |-> p]
Class(cls) == [c |-> "class", cls |-> cls]
Literal(v) == [c |-> "literal", v |-> v]

\* matcher(condition, fun).test
MatcherTest(m, value) ==
  CASE m.cond.c = "otherwise" -> TRUE
    [] m.cond.c = "predicate" -> PredicateTest(m.cond.p, value)
    [] m.cond.c = "class" -> InstanceOf(value, m.cond.cls)
    [] OTHER -> value = m.cond.v
                \/ (TypeofObject(value) /\ PartialCompare(value, m.cond.v))

\* caseMatch from matcher i on: the outcome and the handlers it invoked
RECURSIVE CaseMatchFrom(_, _, _, _)
CaseMatchFrom(ms, i, value, d) ==
  IF i > Len(ms)
  THEN IF d # Undefined
       THEN [out |-> Returned(d), inv |-> <<>>]
       ELSE [out |-> Thrown(NoDefaultCaseError), inv |-> <<>>]
  ELSE IF MatcherTest(ms[i], value)
       THEN [out |-> RunFun(ms[i].fun, value), inv |-> <<[i |-> i, arg |-> value]>>]
       ELSE CaseMatchFrom(ms, i + 1, value, d)

\* caseMatch with the rules tried from the last one down
CaseMatchLastWins(ms, value, d) ==
  LET hit == {i \in 1..Len(ms) : MatcherTest(ms[i], value)} IN
  IF hit = {} THEN CaseMatchFrom(ms, Len(ms) + 1, value, d)
  ELSE LET i == CHOOSE n \in hit : \A j \in hit : j <= n IN
       [out |-> RunFun(ms[i].fun, value), inv |-> <<[i |-> i, arg |-> value]>>]

CaseMatch(ms, value, d) == CaseMatchFrom(ms, 1, value, d)

\* the dispatcher called with an immediate value
DispatchImmediate(ms, value, d) ==
  LET r == CaseMatch(ms, value, d) IN
  IF r.out.st = "thrown" /\ InstanceOf(r.out.v, "NoDefaultCaseError")
  THEN LET r2 == CaseMatch(ms, Undefined, d) IN
       [out |-> r2.out, inv |-> r.inv \o r2.inv]
  ELSE r

\* a dispatcher that hands the reason of a rejected promise to caseMatch
DispatchPendingMatchesReason(ms, p, d) ==
  LET r == CaseMatch(ms, p.v, d) IN
  [out |-> IF r.out.st = "returned" THEN Resolved(r.out.v) ELSE Rejected(r.out.v),
   inv |-> r.inv]

\* the dispatcher called with a promise whose outcome is p
DispatchPending(ms, p, d) ==
  IF p.st = "resolved"
  THEN LET r == CaseMatch(ms, p.v, d) IN
       [out |-> IF r.out.st = "returned" THEN Resolved(r.out.v) ELSE Rejected(r.out.v),
        inv |-> r.inv]
  ELSE [out |-> IF ~IsNullish(d) THEN Resolved(d) ELSE Rejected(p.v), inv |-> <<>>]

\* ------------------------------------------------------------ input domains

Conditions ==
  {Otherwise, Pred("isNumber"), Pred("throws"), Class("C1"), Class("C2"),
   Literal(Undefined), Literal(Obj("Object", [num |-> Num(1)]))}

\* the matcher at position i: its handler is the user function named by i,
\* or one that throws an error of its own, or one that throws
\* NoDefaultCaseError, as a handler does that calls a dispatcher in which
\* nothing matches
MatchersAt(i) ==
  {[cond |-> c, fun |-> f] :
     c \in Conditions,
     f \in {[h |-> "apply", name |-> i], [h |-> "throw", e |-> Inst("TestError", i)],
            [h |-> "throw", e |-> NoDefaultCaseError]}}

RECURSIVE MatcherLists(_)
MatcherLists(n) ==
  IF n = 0 THEN {<<>>}
  ELSE LET shorter == MatcherLists(n - 1) IN
       shorter \cup {Append(ms, m) : ms \in {s \in shorter : Len(s) = n - 1},
                                     m \in MatchersAt(n)}

AllMatcherLists == MatcherLists(MaxMatchers) \ {<<>>}

MatchValues ==
  {Undefined, Null, Num(1), Bool(TRUE), Inst("C1", 1), Inst("C2", 1), Inst("C2", 2)}

MatchDefaults == {Undefined, Null, Num(5)}

\* ------------------------------------------------------------------ actions

\* no Optional has been constructed
NoOpt == [k |-> "none"]

\* no error class has been made
NoErrors == registeredErrors = {} /\ classes = <<>>

\* no component is mounted
NoComponent == props = NoOpt /\ asyncResult = NoOpt /\ promises = NoOpt

InitMatch ==
  /\ origin = NoOpt
  /\ optA = NoOpt
  /\ optB = NoOpt
  /\ steps = 0
  /\ moves = 0
  /\ consumed = 0
  /\ microtasks = <<>>
  /\ last = [op |-> "init"]
  /\ NoErrors
  /\ NoComponent

\* dispatcher(value, defaultValue)
MatchImmediate ==
  /\ last.op = "init"
  /\ \E ms \in AllMatcherLists, v \in MatchValues, d \in MatchDefaults :
    /\ last' = [op |-> "matchImmediate", ms |-> ms, v |-> v, d |-> d,
                res |-> DispatchImmediate(ms, v, d)]
    /\ UNCHANGED <<errorVars, asyncVars, origin, optA, optB, steps, moves, consumed, microtasks>>

\* dispatcher(promise, defaultValue)
MatchPending ==
  /\ last.op = "init"
  /\ \E ms \in AllMatcherLists, v \in MatchValues, d \in MatchDefaults,
        st \in {"resolved", "rejected"} :
    /\ last' = [op |-> "matchPending", ms |-> ms, p |-> [st |-> st, v |-> v], d |-> d,
                res |-> DispatchPending(ms, [st |-> st, v |-> v], d)]
    /\ UNCHANGED <<errorVars, asyncVars, origin, optA, optB, steps, moves, consumed, microtasks>>

\* the same dispatcher called with value and with Promise.resolve(value)
ExpectMatch ==
  /\ last.op = "init"
  /\ \E ms \in AllMatcherLists, v \in MatchValues, d \in MatchDefaults :
    /\ last' = [op |-> "expectMatch", ms |-> ms, v |-> v, d |-> d,
                imm |-> DispatchImmediate(ms, v, d),
                pend |-> DispatchPending(ms, Resolved(v), d)]
    /\ UNCHANGED <<errorVars, asyncVars, origin, optA, optB, steps, moves, consumed, microtasks>>

\* the nested objects of the conditions and values of a partial match
\* the orders in which the keys K of an object literal can be written
KeyOrders(K) ==
  {ks \in [1..Cardinality(K) -> K] : \A i, j \in DOMAIN ks : i # j => ks[i] # ks[j]}

NestedObjects ==
  {Obj("Object", [num |-> Num(1)]), Obj("Object", [num |-> Num(2)])}
    \cup {ObjWritten("Object", ks, [num |-> Num(1), val |-> Num(1)]) :
            ks \in KeyOrders({"num", "val"})}

\* plain objects over the keys deep, num and val, written in any order:
\* deep holds a nested object, num and val hold numbers
PartialObjects ==
  UNION {{ObjWritten("Object", ks, g) :
            ks \in KeyOrders(K),
            g \in {h \in [K -> {Num(1), Num(2)} \cup NestedObjects] :
                     \A key \in K : (key = "deep") <=> (h[key] \in NestedObjects)}} :
          K \in SUBSET {"deep", "num", "val"}}

InitPartial == InitMatch

\* when(c, fun).test(v) for an object condition c and an object value v
PartialTest ==
  /\ last.op = "init"
  /\ \E c \in PartialObjects, v \in PartialObjects :
       last' = [op |-> "partialTest", c |-> c, v |-> v,
                res |-> MatcherTest([cond |-> Literal(c),
                                     fun |-> [h |-> "apply", name |-> 1]], v)]
  /\ UNCHANGED <<errorVars, asyncVars, origin, optA, optB, steps, moves, consumed, microtasks>>

SpecPartial == InitPartial /\ [][PartialTest]_vars

NextMatch == MatchImmediate \/ MatchPending \/ ExpectMatch

SpecMatch == InitMatch /\ [][NextMatch]_vars

\* ------------------------------------------------------- properties of match

\* the positions of the matchers whose test is true for v
MatchedIndices(ms, v) == {i \in 1..Len(ms) : MatcherTest(ms[i], v)}

FirstMatched(ms, v) ==
  CHOOSE i \in MatchedIndices(ms, v) : \A j \in MatchedIndices(ms, v) : i <= j

\* a returned value becomes a resolution, a thrown one a rejection
Settle(out) == IF out.st = "returned" THEN Resolved(out.v) ELSE Rejected(out.v)

\* the calls in inv are calls of the handler at position i alone, the first
\* of them with the value v
OnlyHandler(inv, i, v) ==
  /\ inv # <<>>
  /\ inv[1] = [i |-> i, arg |-> v]
  /\ \A n \in DOMAIN inv : inv[n].i = i

\* C1: for every value and every ordered matcher list in which some test is
\* true, the dispatcher's result is what the handler of the lowest-index
\* matching matcher gives for the value, and that handler is the only one
\* invoked; so [when(C1, A), when(C2, B)] on a C2 instance gives A's result.
C1_FirstMatchWins ==
  /\ (last.op = "matchImmediate" /\ MatchedIndices(last.ms, last.v) # {}) =>
       LET i == FirstMatched(last.ms, last.v) IN
       /\ last.res.out = RunFun(last.ms[i].fun, last.v)
       /\ OnlyHandler(last.res.inv, i, last.v)
  /\ (last.op = "matchPending" /\ last.p.st = "resolved"
        /\ MatchedIndices(last.ms, last.p.v) # {}) =>
       LET i == FirstMatched(last.ms, last.p.v) IN
       /\ last.res.out = Settle(RunFun(last.ms[i].fun, last.p.v))
       /\ OnlyHandler(last.res.inv, i, last.p.v)
  /\ (last.op = "matchImmediate" /\ last.v = Inst("C2", 1) /\ Len(last.ms) = 2
        /\ last.ms[1] = [cond |-> Class("C1"), fun |-> [h |-> "apply", name |-> 1]]
        /\ last.ms[2].cond = Class("C2")) =>
       last.res.out = Returned(App(1, Inst("C2", 1)))

\* a C2 instance went through [when(C1, A), when(C2, B)]: both tests are true
\* and A alone ran
C1_Witness ==
  /\ last.op = "matchImmediate" /\ last.v = Inst("C2", 1) /\ Len(last.ms) = 2
  /\ last.ms[1] = [cond |-> Class("C1"), fun |-> [h |-> "apply", name |-> 1]]
  /\ last.ms[2] = [cond |-> Class("C2"), fun |-> [h |-> "apply", name |-> 2]]
  /\ MatchedIndices(last.ms, last.v) = {1, 2}
  /\ last.res.inv = <<[i |-> 1, arg |-> last.v]>>

\* C2: when no matcher's test is true for an immediate value, the dispatcher
\* returns the default if one was supplied and otherwise fails with
\* NoDefaultCaseError, and no handler is invoked.
C2_NoMatchFallsToDefault ==
  (last.op = "matchImmediate" /\ MatchedIndices(last.ms, last.v) = {}) =>
    /\ last.res.inv = <<>>
    /\ last.res.out = IF last.d # Undefined THEN Returned(last.d)
                      ELSE Thrown(NoDefaultCaseError)

\* C3: a dispatcher gives a promise that resolves to v the outcome it gives v
\* itself: it resolves to what dispatcher(v, d) returns, or rejects with what
\* dispatcher(v, d) throws.
C3_PendingSameAsImmediate ==
  last.op = "expectMatch" => last.pend.out = Settle(last.imm.out)

\* ------------------------------------------------------- Optional and Result

\* get whose moved branch rejects even when a default is given
GetMovedRejects(o, defaultValue, throwErrors) ==
  IF o.moved THEN Rejected(ValueMovedError)
  ELSE IF o.value.st = "rejected"
  THEN IF ~IsNullish(defaultValue) THEN Resolved(defaultValue)
       ELSE IF IsNullish(o.value.v) THEN Rejected(NullError)
       ELSE Rejected(o.value.v)
  ELSE IF IsNullish(o.value.v)
  THEN IF ~IsNullish(defaultValue) THEN Resolved(defaultValue)
       ELSE Rejected(NullError)
  ELSE IF throwErrors /\ (InstanceOf(o.value.v, "RuntimeError")
                           \/ InstanceOf(o.value.v, "Error"))
  THEN IF ~IsNullish(defaultValue) THEN Resolved(defaultValue)
       ELSE Rejected(o.value.v)
  ELSE Resolved(o.value.v)

\* _OptionalImpl.get(defaultValue, throwErrors): the outcome of its promise
Get(o, defaultValue, throwErrors) ==
  IF o.moved
  THEN IF IsNullish(defaultValue) THEN Rejected(ValueMovedError)
       ELSE Resolved(defaultValue)
  ELSE IF o.value.st = "resolved"
  THEN LET unwrapped == o.value.v IN
       IF ~IsNullish(unwrapped)
       THEN IF throwErrors /\ (InstanceOf(unwrapped, "RuntimeError")
                                \/ InstanceOf(unwrapped, "Error"))
            THEN IF ~IsNullish(defaultValue) THEN Resolved(defaultValue)
                 ELSE Rejected(unwrapped)
            ELSE Resolved(unwrapped)
       ELSE IF ~IsNullish(defaultValue) THEN Resolved(defaultValue)
            ELSE Rejected(NullError)
  ELSE IF ~IsNullish(defaultValue) THEN Resolved(defaultValue)
       ELSE IF IsNullish(o.value.v) THEN Rejected(NullError)
       ELSE Rejected(o.value.v)

\* _OptionalImpl.unwrap(): the outcome of its promise
Unwrap(o) ==
  IF o.moved THEN Rejected(ValueMovedError)
  ELSE IF o.value.st = "resolved"
  THEN IF IsNullish(o.value.v) THEN Resolved(Undefined) ELSE Resolved(o.value.v)
  ELSE Resolved(Undefined)

\* throwErrors left off whatever the instance is
ThrowErrorsOff(o) == FALSE

\* the value of throwErrors when get is called without it
ThrowErrorsDefault(o) == o.res

\* get(defaultValue) as callers write it
PublicGet(o, defaultValue) == Get(o, defaultValue, ThrowErrorsDefault(o))

\* peel without the second look at what a promise resolves to
PeelPromiseUnpeeled(value) ==
  IF isOptional(value) THEN value.o
  ELSE IF value.k = "promise" THEN optional(value)
  ELSE IF IsNullish(value) THEN empty
  ELSE optional(value)

\* peel(value)
RECURSIVE peel(_)
peel(value) ==
  IF isOptional(value) THEN value.o
  ELSE IF value.k = "promise"
  THEN optional(IF value.st = "resolved"
                THEN AsPromise(PublicGet(peel(value.v), Undefined))
                ELSE value)
  ELSE IF IsNullish(value) THEN empty
  ELSE optional(value)

\* a transduction that calls the user function whatever get gave
TransduceEager(got, f, arg) ==
  LET mapped == RunTransducer(f, arg) IN
  [out |-> IF mapped.st = "thrown" THEN Rejected(mapped.v)
           ELSE PublicGet(peel(mapped.v), Undefined),
   inv |-> <<arg>>]

\* what the promise handed to optional(...) by map and reduce settles to,
\* given the outcome of this.get(defaultValue, false) and the user function
Transduce(got, f, arg) ==
  IF got.st = "rejected" THEN [out |-> got, inv |-> <<>>]
  ELSE LET mapped == RunTransducer(f, arg) IN
       [out |-> IF mapped.st = "thrown" THEN Rejected(mapped.v)
                ELSE PublicGet(peel(mapped.v), Undefined),
        inv |-> <<arg>>]

\* map(mapper, defaultValue): the Optional returned and the mapper's calls
Map(o, mapper, defaultValue) ==
  LET got == Get(o, defaultValue, FALSE)
      t == Transduce(got, mapper, got.v) IN
  [opt |-> optional(AsPromise(t.out)), inv |-> t.inv]

\* the argument list (prevValue, value) of a reducer
Args(prevValue, value) == [k |-> "args", prev |-> prevValue, value |-> value]

\* reduce(reducer, initialValue, defaultValue)
Reduce(o, reducer, initialValue, defaultValue) ==
  LET got == Get(o, defaultValue, FALSE)
      t == Transduce(got, reducer, Args(initialValue, got.v)) IN
  [opt |-> optional(AsPromise(t.out)), inv |-> t.inv]

\* forEach(fun, defaultValue): the values fun is called with; whatever fun or
\* get throws is swallowed
ForEach(o, defaultValue) ==
  LET got == Get(o, defaultValue, FALSE) IN
  IF got.st = "resolved" THEN <<got.v>> ELSE <<>>

\* a side-effecting consumer: it returns, throws, or returns a promise that
\* rejects
RunConsumer(into, v) ==
  CASE into = "returns" -> Returned(Undefined)
    [] into = "throws" -> Thrown(Inst("TestError", 3))
    [] OTHER -> Returned(Prom("rejected", Inst("TestError", 3)))

\* forEach without its try block: a failure of get or of fun gets out
ForEachUncaught(o, fun, defaultValue) ==
  LET got == Get(o, defaultValue, FALSE) IN
  IF got.st = "rejected" THEN got
  ELSE LET r == RunConsumer(fun, got.v) IN
       IF r.st = "thrown" THEN Rejected(r.v)
       ELSE IF r.v.k = "promise" /\ r.v.st = "rejected" THEN Rejected(r.v.v)
       ELSE Resolved(Undefined)

\* forEach(fun, defaultValue): what the promise it returns settles to; the
\* try block awaits get and fun, the catch block is empty
ForEachSettles(o, fun, defaultValue) ==
  LET got == Get(o, defaultValue, FALSE) IN
  IF got.st = "rejected" THEN Resolved(Undefined)
  ELSE LET r == RunConsumer(fun, got.v) IN
       IF r.st = "thrown" THEN Resolved(Undefined)
       ELSE IF r.v.k = "promise" /\ r.v.st = "rejected" THEN Resolved(Undefined)
       ELSE Resolved(Undefined)

\* createMoved that leaves the moved flag unset
createUnmoved == [value |-> ToPromise(Undefined), moved |-> FALSE, res |-> FALSE]

\* _OptionalImpl.createMoved()
createMoved == [value |-> ToPromise(Undefined), moved |-> TRUE, res |-> FALSE]

\* move(into): the receiver afterwards, the Optional returned, and the
\* forEach call it started, which has not called into yet
Move(o, into) ==
  IF o.moved THEN [self |-> o, opt |-> o, started |-> <<>>]
  ELSE [self |-> o, opt |-> createMoved, started |-> <<[o |-> o, fun |-> into]>>]

\* _OptionalImpl.match(m1..m12): the Optional returned and the handlers'
\* calls; the dispatcher gets the unwrapped value and no default
OptMatch(o, ms) ==
  LET unwrapped == Unwrap(o) IN
  IF unwrapped.st = "rejected"
  THEN [opt |-> optional(AsPromise(unwrapped)), inv |-> <<>>]
  ELSE LET r == DispatchImmediate(ms, unwrapped.v, Undefined) IN
       [opt |-> optional(AsPromise(
                  IF r.out.st = "thrown"
                  THEN IF InstanceOf(r.out.v, "NoDefaultCaseError")
                       THEN Resolved(Undefined)
                       ELSE Rejected(r.out.v)
                  ELSE PublicGet(peel(r.out.v), Undefined))),
        inv |-> r.inv]

\* the call move(into) itself: forEach is an async function, so the call
\* to it returns a promise and throws nothing
MoveCall(o, into) == Returned(OptObj(Move(o, into).opt))

\* what then((value) => .. peel(fun()).get()) settles to once fun is called
CallVoid(fun) ==
  LET r == RunTransducer(fun, Undefined) IN
  IF r.st = "thrown" THEN Rejected(r.v) ELSE PublicGet(peel(r.v), Undefined)

\* otherwise that hands a present value on
OtherwiseKeepsValue(o, fun) ==
  LET unwrapped == Unwrap(o) IN
  IF unwrapped.st = "rejected" \/ ~IsNullish(unwrapped.v)
  THEN [opt |-> optional(AsPromise(unwrapped)), inv |-> <<>>]
  ELSE [opt |-> optional(AsPromise(CallVoid(fun))), inv |-> <<Undefined>>]

\* _OptionalImpl.otherwise(fun): the Optional returned and the calls of fun
OptOtherwise(o, fun) ==
  LET unwrapped == Unwrap(o) IN
  IF unwrapped.st = "rejected"
  THEN [opt |-> optional(AsPromise(unwrapped)), inv |-> <<>>]
  ELSE IF ~IsNullish(unwrapped.v)
  THEN [opt |-> optional(AsPromise(Rejected(unwrapped.v))), inv |-> <<>>]
  ELSE [opt |-> optional(AsPromise(CallVoid(fun))), inv |-> <<Undefined>>]

\* _OptionalImpl.coalesce(fun): the Optional returned and the calls of fun
coalesce(o, fun) ==
  LET unwrapped == Unwrap(o) IN
  IF unwrapped.st = "rejected"
  THEN [opt |-> optional(AsPromise(unwrapped)), inv |-> <<>>]
  ELSE IF ~IsNullish(unwrapped.v)
  THEN [opt |-> optional(AsPromise(Resolved(unwrapped.v))), inv |-> <<>>]
  ELSE [opt |-> optional(AsPromise(CallVoid(fun))), inv |-> <<Undefined>>]

\* an array used as a value
Arr(items) == [k |-> "array", items |-> items]

\* map with one of the mappers concat builds itself: they take the value,
\* throw nothing, and what they return is peeled as map does
MapWith(o, F(_)) ==
  LET got == Get(o, Undefined, FALSE) IN
  optional(AsPromise(IF got.st = "rejected" THEN got
                     ELSE PublicGet(peel(F(got.v)), Undefined)))

\* the reduce of concat: each step maps the accumulator to itself with the
\* value of the next Optional pushed
RECURSIVE ConcatFrom(_, _, _)
ConcatFrom(acc, others, i) ==
  IF i > Len(others) THEN acc
  ELSE ConcatFrom(
         MapWith(acc, LAMBDA vals :
           OptObj(MapWith(others[i], LAMBDA otherVal :
                    Arr(Append(vals.items, otherVal))))),
         others, i + 1)

\* concat that starts from an empty array and leaves the receiver out
concatOthersOnly(o, others) ==
  ConcatFrom(MapWith(o, LAMBDA val : Arr(<<>>)), others, 1)

\* _OptionalImpl.concat(...others): others.reduce over the accumulator
\* this.map((val) => [val])
concat(o, others) ==
  ConcatFrom(MapWith(o, LAMBDA val : Arr(<<val>>)), others, 1)

\* ------------------------------------------------------------------ Result

\* a handler given by a transducer
Handler(f) == [h |-> "transducer", t |-> f]

\* the handlers (value) => value and () => v
Identity == [h |-> "id"]

Constant(v) == [h |-> "const", v |-> v]

\* whenOk(fun), whenErr(fun)
whenOk(fun) == [cond |-> Pred("isOk"), fun |-> fun]

whenErr(fun) == [cond |-> Pred("isErr"), fun |-> fun]

\* fromOptional that hands the Optional on as it is
fromOptionalUnwrapped(opt) == opt

\* fromOptional(opt): result(opt.get())
fromOptional(opt) == result(AsPromise(PublicGet(opt, Undefined)))

\* _ResultImpl.mapOk(mapper): the Result returned and the handlers' calls
mapOk(o, mapper) ==
  LET m == OptMatch(o, <<whenOk(mapper), whenErr(Identity)>>) IN
  [opt |-> fromOptional(m.opt), inv |-> m.inv]

\* _ResultImpl.mapErr(mapper)
mapErr(o, mapper) ==
  LET m == OptMatch(o, <<whenOk(Identity), whenErr(mapper)>>) IN
  [opt |-> fromOptional(m.opt), inv |-> m.inv]

\* toOptional whose error rule ignores the default
toOptionalDropsDefault(o, defaultValue) ==
  OptMatch(o, <<whenOk(Identity), whenErr(Constant(OptObj(empty)))>>)

\* toOptional whose error rule hands the error on
toOptionalKeepsError(o, defaultValue) ==
  OptMatch(o, <<whenOk(Identity), whenErr(Identity)>>)

\* _ResultImpl.toOptional(defaultValue)
toOptional(o, defaultValue) ==
  OptMatch(o, <<whenOk(Identity), whenErr(Constant(OptObj(optional(defaultValue))))>>)

\* _ResultImpl.ok(fun): this.mapOk(fun).toOptional()
ResultOk(o, fun) ==
  LET m == mapOk(o, fun) IN
  [opt |-> toOptional(m.opt, Undefined).opt, inv |-> m.inv]

\* err that awaits get() of the matched Optional
ResultErrGets(o, fun) ==
  LET m == OptMatch(o, <<whenErr(fun), [cond |-> Otherwise, fun |-> Constant(Undefined)]>>) IN
  [out |-> LET g == PublicGet(m.opt, Undefined) IN
           IF g.st = "rejected" THEN g ELSE Resolved(Undefined),
   inv |-> m.inv]

\* _ResultImpl.err(fun): what the promise it returns settles to, and the
\* handlers' calls
ResultErr(o, fun) ==
  LET m == OptMatch(o, <<whenErr(fun), [cond |-> Otherwise, fun |-> Constant(Undefined)]>>) IN
  [out |-> LET u == Unwrap(m.opt) IN
           IF u.st = "rejected" THEN u ELSE Resolved(Undefined),
   inv |-> m.inv]

\* the calls of the handler at position i
CallsOf(inv, i) == SelectSeq(inv, LAMBDA c : c.i = i)

\* ------------------------------------------------- Optional: input domains

Consumers == {"returns", "throws", "rejects"}

\* the conditions of the matchers handed to Optional.match
OptConditions ==
  {Pred("isNumber"), Pred("absent"), Literal(Undefined), Class("RuntimeError"),
   Otherwise}

\* the matcher lists handed to Optional.match: one or two matchers, the
\* handler of the matcher at position i is the user function named by i
OptMatcherLists ==
  {<<[cond |-> c, fun |-> [h |-> "apply", name |-> 1]]>> : c \in OptConditions}
    \cup {<<[cond |-> c1, fun |-> [h |-> "apply", name |-> 1]],
            [cond |-> c2, fun |-> [h |-> "throw", e |-> Inst("TestError", 2)]]>> :
            c1 \in {Pred("isNumber"), Literal(Undefined)}, c2 \in OptConditions}

\* the values handed to optional(...) and result(...)
RawValues ==
  {Undefined, Null, Num(1), Inst("TestError", 1), Inst("Error", 1),
   Prom("resolved", Num(1)), Prom("rejected", Undefined),
   Prom("rejected", Inst("TestError", 1))}

Origins ==
  {[ctor |-> "optional", raw |-> x] : x \in RawValues}
    \cup {[ctor |-> "empty", raw |-> Undefined]}
    \cup {[ctor |-> "result", raw |-> x] :
            x \in {Undefined, Prom("resolved", Inst("TestError", 1))}}
    \cup {[ctor |-> "ok", raw |-> Num(1)], [ctor |-> "err", raw |-> Inst("TestError", 1)]}

Construct(og) ==
  CASE og.ctor = "optional" -> optional(og.raw)
    [] og.ctor = "empty" -> empty
    [] og.ctor = "result" -> result(og.raw)
    [] og.ctor = "ok" -> ok(og.raw)
    [] OTHER -> err(og.raw)

Shapes ==
  {"plain", "pending", "optional", "pendingOptional", "optionalOfPending",
   "optionalOfOptional", "undefined", "throw"}

\* the transducers a caller hands to the n-th transformation
Transducers(n) == {[shape |-> sh, name |-> n] : sh \in Shapes}

Reducers(n) == {[shape |-> sh, name |-> n] : sh \in {"plain", "pendingOptional", "throw"}}

GetDefaults == {Undefined, Null, Num(5)}

MapDefaults == {Undefined, Num(5)}

\* ------------------------------------------------------- Optional: actions

Init ==
  /\ origin \in Origins
  /\ optA = Construct(origin)
  /\ optB = NoOpt
  /\ steps = 0
  /\ moves = 0
  /\ consumed = 0
  /\ microtasks = <<>>
  /\ last = [op |-> "create"]
  /\ NoErrors
  /\ NoComponent

\* the Optionals a caller holds
Targets == IF optB = NoOpt THEN {"a"} ELSE {"a", "b"}

Target(on) == IF on = "a" THEN optA ELSE optB

\* o.get(d), o.get(d, true) or o.get(d, false) on a held Optional
GetOp ==
  \E on \in Targets, d \in GetDefaults, te \in {"default", "true", "false"} :
    /\ last' = [op |-> "get", on |-> on, o |-> Target(on), d |-> d, te |-> te,
                res |-> IF te = "default" THEN PublicGet(Target(on), d)
                        ELSE Get(Target(on), d, te = "true")]
    /\ UNCHANGED <<errorVars, asyncVars, origin, optA, optB, steps, moves, consumed, microtasks>>

\* o.unwrap() on a held Optional
UnwrapOp ==
  \E on \in Targets :
    /\ last' = [op |-> "unwrap", on |-> on, o |-> Target(on),
                res |-> Unwrap(Target(on))]
    /\ UNCHANGED <<errorVars, asyncVars, origin, optA, optB, steps, moves, consumed, microtasks>>

\* b = a.map(f, d) or b = b.map(f, d)
MapOp ==
  \E on \in Targets, f \in Transducers(steps + 1), d \in MapDefaults :
    /\ steps < MaxSteps
    /\ LET m == Map(Target(on), f, d) IN
       /\ optB' = m.opt
       /\ last' = [op |-> "map", on |-> on, o |-> Target(on), f |-> f, d |-> d,
                   inv |-> m.inv]
    /\ steps' = steps + 1
    /\ UNCHANGED <<errorVars, asyncVars, origin, optA, moves, consumed, microtasks>>

\* b = a.reduce(f, 0, d) or b = b.reduce(f, 0, d)
ReduceOp ==
  \E on \in Targets, f \in Reducers(steps + 1), d \in MapDefaults :
    /\ steps < MaxSteps
    /\ LET m == Reduce(Target(on), f, Num(0), d) IN
       /\ optB' = m.opt
       /\ last' = [op |-> "reduce", on |-> on, o |-> Target(on), f |-> f, d |-> d,
                   inv |-> m.inv]
    /\ steps' = steps + 1
    /\ UNCHANGED <<errorVars, asyncVars, origin, optA, moves, consumed, microtasks>>

\* b = a.match(m1, m2) or b = b.match(m1, m2)
MatchOp ==
  \E on \in Targets, ms \in OptMatcherLists :
    /\ steps < MaxSteps
    /\ LET m == OptMatch(Target(on), ms) IN
       /\ optB' = m.opt
       /\ last' = [op |-> "match", on |-> on, o |-> Target(on), ms |-> ms,
                   inv |-> m.inv]
    /\ steps' = steps + 1
    /\ UNCHANGED <<errorVars, asyncVars, origin, optA, moves, consumed, microtasks>>

\* how many of the values in inv are the value optA holds
HandedOver(inv) ==
  Cardinality({i \in 1..Len(inv) : optA.value.st = "resolved" /\ inv[i] = optA.value.v})

\* b = a.move(into) or b = b.move(into): the call returns before into is
\* called
MoveOp ==
  \E on \in Targets, into \in Consumers :
    /\ steps < MaxSteps
    /\ \E m \in {Move(Target(on), into)} :
       /\ optA' = IF on = "a" THEN m.self ELSE optA
       /\ optB' = m.opt
       /\ microtasks' = microtasks \o m.started
       /\ last' = [op |-> "move", on |-> on, o |-> Target(on), inv |-> <<>>,
                   into |-> into, call |-> MoveCall(Target(on), into)]
    /\ moves' = IF on = "a" THEN moves + 1 ELSE moves
    /\ steps' = steps + 1
    /\ UNCHANGED <<errorVars, asyncVars, origin, consumed>>

\* a sequence without its element at position i
RemoveAt(s, i) == SubSeq(s, 1, i - 1) \o SubSeq(s, i + 1, Len(s))

\* a forEach started by move goes on after its await: into is called with
\* the value, and what get or into throws is swallowed. The calls started
\* on one receiver go on in the order they were started
HandOverOp ==
  /\ microtasks # <<>>
  /\ \E i \in DOMAIN microtasks :
       /\ \A j \in 1..(i - 1) : microtasks[j].o # microtasks[i].o
       /\ \E inv \in {ForEach(microtasks[i].o, Undefined)} :
            /\ consumed' = consumed + HandedOver(inv)
            /\ last' = [op |-> "handOver", o |-> microtasks[i].o,
                        into |-> microtasks[i].fun, inv |-> inv,
                        settled |-> ForEachSettles(microtasks[i].o,
                                                   microtasks[i].fun, Undefined)]
       /\ microtasks' = RemoveAt(microtasks, i)
  /\ UNCHANGED <<errorVars, asyncVars, origin, optA, optB, steps, moves>>

Next == GetOp \/ UnwrapOp \/ MapOp \/ ReduceOp \/ MoveOp \/ HandOverOp \/ MatchOp

Spec == Init /\ [][Next]_vars

\* ------------------------------------------- Optional: control-flow actions

\* the step before the last one, kept to speak about chains of two calls
NoStep == [op |-> "none"]

Before ==
  IF last.op \in {"coalesce", "otherwise"}
  THEN [op |-> last.op, on |-> last.on, o |-> last.o, f |-> last.f, inv |-> last.inv]
  ELSE NoStep

\* b = a.coalesce(f) or b = b.coalesce(f)
CoalesceOp ==
  /\ steps < MaxSteps
  /\ \E on \in Targets, f \in Transducers(steps + 1) :
       \E m \in {coalesce(Target(on), f)} :
       /\ optB' = m.opt
       /\ last' = [op |-> "coalesce", on |-> on, o |-> Target(on), f |-> f,
                   inv |-> m.inv, first |-> Before]
  /\ steps' = steps + 1
  /\ UNCHANGED <<errorVars, asyncVars, origin, optA, moves, consumed, microtasks>>

\* b = a.otherwise(f) or b = b.otherwise(f)
OtherwiseOp ==
  /\ steps < MaxSteps
  /\ \E on \in Targets, f \in Transducers(steps + 1) :
       \E m \in {OptOtherwise(Target(on), f)} :
       /\ optB' = m.opt
       /\ last' = [op |-> "otherwise", on |-> on, o |-> Target(on), f |-> f,
                   inv |-> m.inv, first |-> Before]
  /\ steps' = steps + 1
  /\ UNCHANGED <<errorVars, asyncVars, origin, optA, moves, consumed, microtasks>>

\* a.forEach(fun, d) or b.forEach(fun, d)
ForEachOp ==
  /\ \E on \in Targets, fun \in Consumers, d \in MapDefaults :
       last' = [op |-> "forEach", on |-> on, o |-> Target(on), into |-> fun,
                d |-> d, inv |-> ForEach(Target(on), d),
                settled |-> ForEachSettles(Target(on), fun, d)]
  /\ UNCHANGED <<errorVars, asyncVars, origin, optA, optB, steps, moves, consumed, microtasks>>

\* the Optionals handed to concat
ConcatOperands ==
  {optional(Num(1)), optional(Num(2)), empty,
   optional(Prom("rejected", Inst("TestError", 1)))}

OthersLists ==
  UNION {[1..n -> ConcatOperands] : n \in 1..MaxOthers}

\* b = a.concat(b1, .., bn) or b = b.concat(b1, .., bn)
ConcatOp ==
  /\ steps < MaxSteps
  /\ \E on \in Targets, others \in OthersLists :
       /\ optB' = concat(Target(on), others)
       /\ last' = [op |-> "concat", on |-> on, o |-> Target(on), others |-> others]
  /\ steps' = steps + 1
  /\ UNCHANGED <<errorVars, asyncVars, origin, optA, moves, consumed, microtasks>>

NextFlow ==
  GetOp \/ CoalesceOp \/ OtherwiseOp \/ ForEachOp \/ MoveOp \/ HandOverOp \/ ConcatOp

SpecFlow == Init /\ [][NextFlow]_vars

\* ----------------------------------------------------------- Result: actions

\* the Results a caller starts from
ResultOrigins ==
  {[ctor |-> "ok", raw |-> x] :
     x \in {Num(1), Prom("resolved", Num(1)), OptObj(optional(Num(1)))}}
    \cup {[ctor |-> "err", raw |-> x] :
            x \in {Inst("TestError", 1), Prom("resolved", Inst("TestError", 1))}}
    \cup {[ctor |-> "result", raw |-> x] :
            x \in {Undefined, Prom("rejected", Inst("TestError", 1))}}

\* the mappers handed to mapOk and ok
OkMappers(n) == {Handler(f) : f \in Transducers(n)}

\* the mappers handed to mapErr: they return an error, now or later, or throw
ErrMappers ==
  {Constant(Inst("TestError", 2)), Constant(Prom("resolved", Inst("TestError", 2))),
   [h |-> "throw", e |-> Inst("TestError", 2)]}

\* the functions handed to err
ErrConsumers(n) ==
  {Handler([shape |-> sh, name |-> n]) :
     sh \in {"plain", "undefined", "throw", "pendingRejected"}}

InitResult ==
  /\ origin \in ResultOrigins
  /\ optA = Construct(origin)
  /\ optB = NoOpt
  /\ steps = 0
  /\ moves = 0
  /\ consumed = 0
  /\ microtasks = <<>>
  /\ last = [op |-> "create"]
  /\ NoErrors
  /\ NoComponent

\* the Results a caller holds
ResultTargets == {on \in Targets : Target(on).res}

\* b = a.mapOk(f) or b = b.mapOk(f)
MapOkOp ==
  /\ steps < MaxSteps
  /\ \E on \in ResultTargets, fun \in OkMappers(steps + 1) :
       \E m \in {mapOk(Target(on), fun)} :
       /\ optB' = m.opt
       /\ last' = [op |-> "mapOk", on |-> on, o |-> Target(on), fun |-> fun,
                   inv |-> m.inv]
  /\ steps' = steps + 1
  /\ UNCHANGED <<errorVars, asyncVars, origin, optA, moves, consumed, microtasks>>

\* b = a.mapErr(f) or b = b.mapErr(f)
MapErrOp ==
  /\ steps < MaxSteps
  /\ \E on \in ResultTargets, fun \in ErrMappers :
       \E m \in {mapErr(Target(on), fun)} :
       /\ optB' = m.opt
       /\ last' = [op |-> "mapErr", on |-> on, o |-> Target(on), fun |-> fun,
                   inv |-> m.inv]
  /\ steps' = steps + 1
  /\ UNCHANGED <<errorVars, asyncVars, origin, optA, moves, consumed, microtasks>>

\* b = a.toOptional(d) or b = b.toOptional(d)
ToOptionalOp ==
  /\ steps < MaxSteps
  /\ \E on \in ResultTargets, d \in MapDefaults :
       \E m \in {toOptional(Target(on), d)} :
       /\ optB' = m.opt
       /\ last' = [op |-> "toOptional", on |-> on, o |-> Target(on), d |-> d,
                   inv |-> m.inv]
  /\ steps' = steps + 1
  /\ UNCHANGED <<errorVars, asyncVars, origin, optA, moves, consumed, microtasks>>

\* b = a.ok(f) or b = b.ok(f)
ResultOkOp ==
  /\ steps < MaxSteps
  /\ \E on \in ResultTargets, fun \in OkMappers(steps + 1) :
       \E m \in {ResultOk(Target(on), fun)} :
       /\ optB' = m.opt
       /\ last' = [op |-> "ok", on |-> on, o |-> Target(on), fun |-> fun,
                   inv |-> m.inv]
  /\ steps' = steps + 1
  /\ UNCHANGED <<errorVars, asyncVars, origin, optA, moves, consumed, microtasks>>

\* a.err(f) or b.err(f)
ResultErrOp ==
  /\ \E on \in ResultTargets, fun \in ErrConsumers(steps + 1) :
       \E m \in {ResultErr(Target(on), fun)} :
       last' = [op |-> "err", on |-> on, o |-> Target(on), fun |-> fun,
                inv |-> m.inv, res |-> m.out]
  /\ UNCHANGED <<errorVars, asyncVars, origin, optA, optB, steps, moves, consumed, microtasks>>

NextResult ==
  GetOp \/ MapOkOp \/ MapErrOp \/ ToOptionalOp \/ ResultOkOp \/ ResultErrOp

SpecResult == InitResult /\ [][NextResult]_vars

\* ------------------------------------------------------------------- block

\* isResult(value)
isResult(value) == isOptional(value) /\ value.o.res

\* resultJust(res, defaultValue): the outcome of the promise it returns
resultJust(res, defaultValue) ==
  LET optError == OptMatch(res, <<whenErr(Identity)>>).opt
      error == Unwrap(optError)
  IN IF error.st = "rejected" THEN error
     ELSE IF ~IsNullish(error.v) THEN Rejected(NullError)
     ELSE PublicGet(ResultOk(res, Identity).opt, defaultValue)

\* optionalJust(value, defaultValue)
optionalJust(value, defaultValue) == PublicGet(value, defaultValue)

\* just(value, defaultValue): the outcome of the promise it returns
just(value, defaultValue) ==
  IF isResult(value) THEN resultJust(value.o, defaultValue)
  ELSE IF isOptional(value) THEN optionalJust(value.o, defaultValue)
  ELSE IF IsNullish(value) THEN Rejected(NullError)
  ELSE Resolved(value)

\* the try branch of block: the Optional made of the executor's return value
blockResult(r) ==
  IF isResult(r) THEN toOptional(r.o, Undefined).opt
  ELSE IF isOptional(r) THEN r.o
  ELSE optional(r)

\* a catch branch that hands every error on
blockCatchRethrows(error) == Rejected(error)

\* the catch branch of block: what block settles to when the executor
\* failed with error
blockCatch(error) ==
  IF InstanceOf(error, "NullError") THEN Resolved(OptObj(empty))
  ELSE Rejected(error)

\* the Optionals and Results an executor reads
BlockOptionals ==
  {optional(Num(1)), empty, optional(Prom("rejected", Inst("TestError", 1))),
   createMoved}

BlockResults == {ok(Num(1)), err(Inst("TestError", 1)), result(Undefined)}

\* the values an executor hands to just or returns
JustValues ==
  {Undefined, Null, Num(1)} \cup {OptObj(o) : o \in BlockOptionals \cup BlockResults}

\* the errors an executor throws itself
ExecutorErrors == {Inst("TestError", 2), NullError, ValueMovedError}

Running == [st |-> "running", v |-> Undefined]

InitBlock ==
  /\ origin = NoOpt
  /\ optA = NoOpt
  /\ optB = NoOpt
  /\ steps = 0
  /\ moves = 0
  /\ consumed = 0
  /\ microtasks = <<>>
  /\ last = [op |-> "enter", out |-> Running]
  /\ NoErrors
  /\ NoComponent

\* what block settles to after a step of the executor that awaited a
\* promise with outcome r: a rejection leaves the executor
AfterAwait(r) == IF r.st = "rejected" THEN blockCatch(r.v) ELSE Running

\* the executor awaits just(value, d)
JustOp ==
  /\ last.out = Running
  /\ steps < MaxSteps
  /\ \E value \in JustValues, d \in GetDefaults :
       \E r \in {just(value, d)} :
       last' = [op |-> "just", value |-> value, d |-> d, res |-> r,
                out |-> AfterAwait(r)]
  /\ steps' = steps + 1
  /\ UNCHANGED <<errorVars, asyncVars, origin, optA, optB, moves, consumed, microtasks>>

\* the executor awaits o.get(d) itself
DirectGetOp ==
  /\ last.out = Running
  /\ steps < MaxSteps
  /\ \E o \in BlockOptionals \cup BlockResults, d \in GetDefaults :
       \E r \in {PublicGet(o, d)} :
       last' = [op |-> "directGet", value |-> OptObj(o), d |-> d,
                res |-> r, out |-> AfterAwait(r)]
  /\ steps' = steps + 1
  /\ UNCHANGED <<errorVars, asyncVars, origin, optA, optB, moves, consumed, microtasks>>

\* the executor throws an error of its own
ThrowOp ==
  /\ last.out = Running
  /\ \E e \in ExecutorErrors :
       last' = [op |-> "throw", value |-> e, d |-> Undefined, res |-> Rejected(e),
                out |-> blockCatch(e)]
  /\ UNCHANGED <<errorVars, asyncVars, origin, optA, optB, steps, moves, consumed, microtasks>>

\* the executor returns r
ReturnOp ==
  /\ last.out = Running
  /\ \E r \in JustValues :
       last' = [op |-> "return", value |-> r, d |-> Undefined, res |-> Resolved(r),
                out |-> Resolved(OptObj(blockResult(r)))]
  /\ UNCHANGED <<errorVars, asyncVars, origin, optA, optB, steps, moves, consumed, microtasks>>

NextBlock == JustOp \/ DirectGetOp \/ ThrowOp \/ ReturnOp

SpecBlock == InitBlock /\ [][NextBlock]_vars

\* ------------------------------------------------------------------- errors

\* no Optional is involved; the variables of the Optionals stay idle
NoOptional ==
  /\ origin = NoOpt
  /\ optA = NoOpt
  /\ optB = NoOpt
  /\ steps = 0
  /\ moves = 0
  /\ consumed = 0
  /\ microtasks = <<>>

\* the class E made by one call of ExtendRuntimeError
ErrorClass(name, defaultMessage) ==
  [k |-> "class", name |-> name, message |-> defaultMessage]

\* ExtendRuntimeError without the look into the registry
ExtendUnchecked(reg, name, defaultMessage) ==
  [out |-> Returned(ErrorClass(name, defaultMessage)), reg |-> reg \cup {name}]

\* ExtendRuntimeError(name, defaultMessage) with registeredErrors = reg:
\* what the call returns or throws, and registeredErrors afterwards
ExtendRuntimeError(reg, name, defaultMessage) ==
  IF name \in reg
  THEN [out |-> Thrown(Obj("Error", [x \in {} |-> Undefined])), reg |-> reg]
  ELSE [out |-> Returned(ErrorClass(name, defaultMessage)), reg |-> reg \cup {name}]

\* new E() and new E(message) for the class made by the c-th successful call
New(c, given, message) ==
  [kind |-> c, name |-> classes[c].name,
   message |-> IF given THEN message ELSE classes[c].message]

\* instance instanceof the class made by the c-th successful call
InstanceOfKind(instance, c) == instance.kind = c

\* the names and default messages callers use
ErrorNames == {"TestAPIError", "TestStateError", "NullError"}

DefaultMessages == {"", "api error"}

InitError ==
  /\ NoOptional
  /\ NoComponent
  /\ registeredErrors = {}
  /\ classes = <<>>
  /\ last = [op |-> "load"]

\* class X extends ExtendRuntimeError(name, defaultMessage) {}
ExtendOp ==
  /\ \E name \in ErrorNames, defaultMessage \in DefaultMessages :
       \E r \in {ExtendRuntimeError(registeredErrors, name, defaultMessage)} :
       /\ registeredErrors' = r.reg
       /\ classes' = IF r.out.st = "returned" THEN Append(classes, r.out.v)
                     ELSE classes
       /\ last' = [op |-> "extend", name |-> name, message |-> defaultMessage,
                   before |-> registeredErrors, made |-> Len(classes),
                   out |-> r.out]
  /\ UNCHANGED <<asyncVars, origin, optA, optB, steps, moves, consumed, microtasks>>

\* new X() or new X(message)
NewOp ==
  /\ \E c \in 1..Len(classes), given \in BOOLEAN :
       last' = [op |-> "new", kind |-> c, given |-> given,
                instance |-> New(c, given, "custom")]
  /\ UNCHANGED <<errorVars, asyncVars, origin, optA, optB, steps, moves, consumed, microtasks>>

NextError == ExtendOp \/ NewOp

SpecError == InitError /\ [][NextError]_vars

\* ------------------------------------------------------------- resultBlock

\* new ExpectedError(expected), the class local to resultBlock
ExpectedError(expected) == [k |-> "expectedError", expected |-> expected]

\* the function err imported from ./result, as a value
ErrFunction == [k |-> "function", of |-> "err"]

\* the just that resultBlock hands to its executor: the outcome of the
\* promise just(res, defaultValue) returns
resultBlockJust(res, defaultValue) ==
  LET optError == OptMatch(res, <<whenErr(Identity)>>).opt
      error == Unwrap(optError)
  IN IF error.st = "rejected" THEN error
     ELSE IF ~IsNullish(error.v) THEN Rejected(ExpectedError(error.v))
     ELSE PublicGet(ResultOk(res, Identity).opt, defaultValue)

\* the try branch of resultBlock: the Result made of the executor's return
\* value
resultBlockResult(r) == IF isResult(r) THEN r.o ELSE ok(r)

\* the catch branch of resultBlock: what resultBlock settles to when the
\* executor failed with error
resultBlockCatch(error) ==
  IF error.k = "expectedError" THEN Resolved(OptObj(err(error.expected)))
  ELSE Rejected(ErrFunction)

\* the Results an executor hands to just
ResultBlockResults == BlockResults \cup {err(Inst("TestError", 2))}

InitResultBlock ==
  /\ NoOptional
  /\ NoErrors
  /\ NoComponent
  /\ last = [op |-> "enterResultBlock", out |-> Running, got |-> <<>>]

\* the executor awaits just(res, d); a rejection leaves the executor
ResultJustOp ==
  /\ last.out = Running
  /\ Len(last.got) < MaxSteps
  /\ \E res \in ResultBlockResults, d \in GetDefaults :
       \E r \in {resultBlockJust(res, d)} :
       last' = [op |-> "resultJust", value |-> OptObj(res), d |-> d, res |-> r,
                out |-> IF r.st = "rejected" THEN resultBlockCatch(r.v) ELSE Running,
                got |-> Append(last.got, r)]
  /\ UNCHANGED <<errorVars, asyncVars, origin, optA, optB, steps, moves, consumed, microtasks>>

\* the executor throws an error of its own
ResultThrowOp ==
  /\ last.out = Running
  /\ \E e \in ExecutorErrors :
       last' = [op |-> "resultThrow", value |-> e, d |-> Undefined,
                res |-> Rejected(e), out |-> resultBlockCatch(e), got |-> last.got]
  /\ UNCHANGED <<errorVars, asyncVars, origin, optA, optB, steps, moves, consumed, microtasks>>

\* the executor returns r
ResultReturnOp ==
  /\ last.out = Running
  /\ \E r \in JustValues :
       last' = [op |-> "resultReturn", value |-> r, d |-> Undefined,
                res |-> Resolved(r), out |-> Resolved(OptObj(resultBlockResult(r))),
                got |-> last.got]
  /\ UNCHANGED <<errorVars, asyncVars, origin, optA, optB, steps, moves, consumed, microtasks>>

NextResultBlock == ResultJustOp \/ ResultThrowOp \/ ResultReturnOp

SpecResultBlock == InitResultBlock /\ [][NextResultBlock]_vars

\* -------------------------------------------------------- Async and Unwrap

\* a promise that has not settled
Pending == [st |-> "pending", v |-> Undefined]

\* what children and the callbacks then and catch render
Children == [k |-> "node", of |-> "children"]

\* a value in the condition of an if statement
Truthy(v) == ~(IsNullish(v) \/ v = Num(0) \/ v = Bool(FALSE))

\* the state useState starts with, and the ones safeSetResult sets
EmptyResult == [resolved |-> Undefined, error |-> Undefined]

ResultOf(out) ==
  IF out.st = "resolved" THEN [resolved |-> out.v, error |-> Undefined]
  ELSE [resolved |-> Undefined, error |-> out.v]

\* safeSetResult(result) of an effect whose flag is didCancel: the state
\* of the component afterwards
safeSetResult(didCancel, res) == IF didCancel THEN asyncResult ELSE res

\* the body of Async after the hooks: what it renders for the props p and
\* the state r
Render(p, r) ==
  IF Truthy(r.error)
  THEN IF p.catch THEN App("catch", r.error) ELSE Children
  ELSE IF Truthy(r.resolved)
  THEN IF p.then THEN App("then", r.resolved) ELSE Children
  ELSE Children

Rendered == Render(props, asyncResult)

\* what the promises handed to Async settle to; Unwrap hands it
\* optional.get(default)
AsyncOutcomes ==
  {Resolved(v) : v \in {Num(1), Num(0), Bool(FALSE), Inst("C1", 1)}}
    \cup {Rejected(e) : e \in {Inst("TestError", 1), Undefined, Num(0)}}
    \cup {PublicGet(o, d) : o \in BlockOptionals, d \in {Undefined, Num(5)}}

\* the component is mounted with its first promise and the effect has run:
\* props.promise is the promise of the latest render, props.effect the one
\* the effect in force subscribed to
InitAsync ==
  /\ NoOptional
  /\ NoErrors
  /\ props \in {[mounted |-> TRUE, promise |-> 1, effect |-> 1, then |-> t,
                   catch |-> c] :
                  t \in BOOLEAN, c \in BOOLEAN}
  /\ asyncResult = EmptyResult
  /\ promises = [i \in 1..MaxPromises |->
                   [out |-> Pending, subscribed |-> i = 1, didCancel |-> FALSE,
                    delivered |-> FALSE]]
  /\ last = [op |-> "mount"]

\* a promise settles
SettleOp ==
  /\ \E i \in 1..MaxPromises, out \in AsyncOutcomes :
       /\ promises[i].out = Pending
       /\ promises' = [promises EXCEPT ![i].out = out]
       /\ last' = [op |-> "settle", i |-> i]
  /\ UNCHANGED <<errorVars, props, asyncResult, origin, optA, optB, steps, moves, consumed, microtasks>>

\* the callback the effect chained on a settled promise runs
DeliverOp ==
  /\ \E i \in 1..MaxPromises :
       /\ promises[i].out # Pending
       /\ promises[i].subscribed
       /\ ~promises[i].delivered
       /\ asyncResult' = safeSetResult(promises[i].didCancel, ResultOf(promises[i].out))
       /\ promises' = [promises EXCEPT ![i].delivered = TRUE]
       /\ last' = [op |-> "deliver", i |-> i, cancelled |-> promises[i].didCancel,
                   before |-> asyncResult]
  /\ UNCHANGED <<errorVars, props, origin, optA, optB, steps, moves, consumed, microtasks>>

\* the parent renders Async with another promise: the component renders
\* with the state it has; the effects are not flushed yet
ChangePromiseOp ==
  /\ props.mounted
  /\ props.effect = props.promise
  /\ \E j \in 1..MaxPromises :
       /\ ~promises[j].subscribed
       /\ j # props.promise
       /\ props' = [props EXCEPT !.promise = j]
       /\ last' = [op |-> "rerender", i |-> j]
  /\ UNCHANGED <<errorVars, asyncResult, promises, origin, optA, optB, steps, moves, consumed, microtasks>>

\* the effects of the latest render are flushed: the cleanup of the old
\* effect runs, then the effect for the new promise
FlushEffectsOp ==
  /\ props.mounted
  /\ props.effect # props.promise
  /\ props' = [props EXCEPT !.effect = props.promise]
  /\ promises' = [promises EXCEPT ![props.effect].didCancel = TRUE,
                                   ![props.promise].subscribed = TRUE]
  /\ last' = [op |-> "flush", i |-> props.promise]
  /\ UNCHANGED <<errorVars, asyncResult, origin, optA, optB, steps, moves, consumed, microtasks>>

\* the component unmounts: the cleanup of the effect in force runs
UnmountOp ==
  /\ props.mounted
  /\ props' = [props EXCEPT !.mounted = FALSE]
  /\ promises' = [promises EXCEPT ![props.effect].didCancel = TRUE]
  /\ last' = [op |-> "unmount", i |-> props.promise]
  /\ UNCHANGED <<errorVars, asyncResult, origin, optA, optB, steps, moves, consumed, microtasks>>

NextAsync == SettleOp \/ DeliverOp \/ ChangePromiseOp \/ FlushEffectsOp \/ UnmountOp

SpecAsync == InitAsync /\ [][NextAsync]_vars

\* ---------------------------------------------------- properties of Optional

\* the Optional holds a value: not moved, its source resolved to non-null
Filled(o) == ~o.moved /\ o.value.st = "resolved" /\ ~IsNullish(o.value.v)

\* not moved, and the source resolved to null or undefined
Empty(o) == ~o.moved /\ o.value.st = "resolved" /\ IsNullish(o.value.v)

\* not moved, and the source rejected
Failed(o) == ~o.moved /\ o.value.st = "rejected"

\* the value is a RuntimeError or an Error
IsErrorValue(v) == InstanceOf(v, "RuntimeError") \/ InstanceOf(v, "Error")

\* the throwErrors a recorded get ran with
LastThrowErrors ==
  IF last.te = "default" THEN last.o.res ELSE last.te = "true"

\* C4: get() with no default resolves to x on an unmoved Optional built from
\* any non-null immediate x, rejects with NullError on an empty one (built
\* from null, from undefined, or from a source that failed without a reason)
\* and rejects with ValueMovedError on a moved one.
C4_GetWithoutDefault ==
  (last.op = "get" /\ last.te = "default" /\ last.d = Undefined) =>
    /\ (last.on = "a" /\ moves = 0 /\ origin.ctor = "optional"
          /\ origin.raw.k # "promise" /\ ~IsNullish(origin.raw)) =>
         last.res = Resolved(origin.raw)
    /\ (last.on = "a" /\ moves = 0
          /\ (origin.ctor = "empty"
                \/ (origin.ctor = "optional"
                      /\ origin.raw \in {Undefined, Null, Prom("rejected", Undefined)}))) =>
         last.res = Rejected(NullError)
    /\ last.o.moved => last.res = Rejected(ValueMovedError)

\* C5: get(d) with a non-null d never rejects: it resolves to the wrapped
\* value when the Optional is filled with a non-error value, and to d when
\* the Optional is empty, failed, moved, or holds an error value while
\* throwErrors is on.
C5_DefaultWins ==
  (last.op = "get" /\ ~IsNullish(last.d)) =>
    /\ last.res.st = "resolved"
    /\ (Filled(last.o) /\ ~IsErrorValue(last.o.value.v)) =>
         last.res.v = last.o.value.v
    /\ (Empty(last.o) \/ Failed(last.o) \/ last.o.moved
          \/ (Filled(last.o) /\ IsErrorValue(last.o.value.v) /\ LastThrowErrors)) =>
         last.res.v = last.d

\* get(5) was called on a moved Optional and gave 5
C5_Witness ==
  /\ last.op = "get" /\ last.d = Num(5) /\ last.o.moved
  /\ last.res = Resolved(Num(5))

\* C6: get() without arguments surfaces a carried error on a Result only:
\* err(e).get() rejects with e and err(e).get(d) resolves to d, ok(v).get()
\* resolves to v, and optional(e).get() resolves to e.
C6_ResultSurfacesErrors ==
  (last.op = "get" /\ last.on = "a" /\ moves = 0 /\ last.te = "default") =>
    /\ origin.ctor = "err" =>
         last.res = IF IsNullish(last.d) THEN Rejected(origin.raw)
                    ELSE Resolved(last.d)
    /\ origin.ctor = "ok" => last.res = Resolved(origin.raw)
    /\ (origin.ctor = "optional" /\ InstanceOf(origin.raw, "RuntimeError")) =>
         last.res = Resolved(origin.raw)

\* err(e).get() was called and rejected with e
C6_Witness ==
  /\ last.op = "get" /\ last.on = "a" /\ last.te = "default" /\ last.d = Undefined
  /\ origin = [ctor |-> "err", raw |-> Inst("TestError", 1)]
  /\ last.res = Rejected(Inst("TestError", 1))

\* the return shapes with at most one Optional layer
PeeledShapes ==
  {"plain", "pending", "optional", "pendingOptional", "optionalOfPending"}

\* C7 as stated: on a filled Optional holding x, map(f).get() resolves to the
\* same plain r whether f(x) returns r, a pending r, an Optional of r or a
\* pending Optional of r, nested to any depth, and never to an Optional.
C7_PeelAnyDepth ==
  (last.op = "map" /\ Filled(last.o)
     /\ last.f.shape \in PeeledShapes \cup {"optionalOfOptional"}) =>
    /\ PublicGet(optB, Undefined) = Resolved(App(last.f.name, last.o.value.v))
    /\ ~isOptional(PublicGet(optB, Undefined).v)

\* C7, amended: on a filled Optional holding x, map(f).get() resolves to the
\* same plain r whether f(x) returns r, a pending r, an Optional of r (built
\* from r or from a pending r) or a pending value that resolves to an Optional
\* of r; one Optional layer is peeled: when f(x) returns an Optional that
\* holds an Optional of r, map(f).get() resolves to that inner Optional.
C7_PeelOneLayer ==
  (last.op = "map" /\ Filled(last.o)) =>
    LET r == App(last.f.name, last.o.value.v) IN
    /\ last.f.shape \in PeeledShapes =>
         /\ PublicGet(optB, Undefined) = Resolved(r)
         /\ last.inv = <<last.o.value.v>>
    /\ last.f.shape = "optionalOfOptional" =>
         PublicGet(optB, Undefined) = Resolved(OptObj(optional(r)))

\* a mapper returned a pending value that resolved to an Optional of r, and
\* get() on the mapped Optional gave r
C7_Witness ==
  /\ last.op = "map" /\ Filled(last.o) /\ last.f.shape = "pendingOptional"
  /\ PublicGet(optB, Undefined) = Resolved(App(last.f.name, last.o.value.v))

\* C8: map and reduce without a default on an empty, failed or moved Optional
\* never call the user function, and get() on the Optional they return, and
\* on any map or reduce chained on it, rejects with the error get() on the
\* source rejects with: NullError for empty, ValueMovedError for moved.
C8_LazyFailure ==
  (last.op \in {"map", "reduce"} /\ last.d = Undefined
     /\ (Empty(last.o) \/ Failed(last.o) \/ last.o.moved)) =>
    LET src == PublicGet(last.o, Undefined) IN
    /\ last.inv = <<>>
    /\ src.st = "rejected"
    /\ PublicGet(optB, Undefined) = src
    /\ Empty(last.o) => src = Rejected(NullError)
    /\ last.o.moved => src = Rejected(ValueMovedError)
    /\ \A g \in Transducers(steps + 1) :
         /\ Map(optB, g, Undefined).inv = <<>>
         /\ PublicGet(Map(optB, g, Undefined).opt, Undefined) = src
    /\ \A g \in Reducers(steps + 1) :
         /\ Reduce(optB, g, Num(0), Undefined).inv = <<>>
         /\ PublicGet(Reduce(optB, g, Num(0), Undefined).opt, Undefined) = src

\* map without a default ran on a moved Optional, called nothing and returned
\* an Optional whose get() rejects with ValueMovedError
C8_Witness ==
  /\ last.op = "map" /\ last.d = Undefined /\ last.o.moved /\ last.inv = <<>>
  /\ PublicGet(optB, Undefined) = Rejected(ValueMovedError)

\* C9: once move has been called on a, every a.get() rejects with
\* ValueMovedError and every a.get(d) resolves to d.
C9_ReceiverMoved ==
  (last.op = "get" /\ last.on = "a" /\ moves >= 1 /\ last.te = "default") =>
    last.res = IF IsNullish(last.d) THEN Rejected(ValueMovedError)
               ELSE Resolved(last.d)

\* C10: over any sequence of moves on a and on the Optionals move returned,
\* the value a held is handed to a consumer at most once.
C10_NoDoubleConsumption == consumed <= 1

\* C11: move(into) never throws at the call and leaves no rejected promise
\* behind, whether the receiver is already moved or into fails, and the
\* Optional it returns is moved: its get() rejects with ValueMovedError, its
\* get(d) resolves to d, and its map(f).get() rejects with ValueMovedError
\* without calling f.
C11_MoveReturnsMoved ==
  /\ last.op = "handOver" => last.settled.st = "resolved"
  /\ last.op = "move" =>
    /\ last.call = Returned(OptObj(optB))
    /\ optB.moved
    /\ PublicGet(optB, Undefined) = Rejected(ValueMovedError)
    /\ PublicGet(optB, Num(5)) = Resolved(Num(5))
    /\ \A f \in Transducers(steps + 1) :
         /\ Map(optB, f, Undefined).inv = <<>>
         /\ PublicGet(Map(optB, f, Undefined).opt, Undefined) = Rejected(ValueMovedError)

\* move was called on an already moved Optional with a consumer that throws
C11_Witness ==
  /\ last.op = "move" /\ last.o.moved /\ last.into = "throws"
  /\ last.call.st = "returned" /\ optB.moved

\* C15: unwrap() never rejects, whatever the state of the Optional: it
\* resolves to the value when the Optional is filled and to undefined when it
\* is empty, failed or moved.
C15_UnwrapNeverRejects ==
  last.op = "unwrap" =>
    last.res = IF Filled(last.o) THEN Resolved(last.o.value.v)
               ELSE Resolved(Undefined)

\* the value Optional.match dispatches for an unmoved Optional
MatchedValue(o) == IF Filled(o) THEN o.value.v ELSE Undefined

\* C16: Optional.match without a default on an unmoved Optional: when no
\* matcher's test is true for the resolved value (undefined for an absent or
\* failed Optional), no handler is invoked and the Optional returned is
\* empty: its unwrap() resolves to undefined and its get() rejects with
\* NullError.
C16_MatchDegradesToEmpty ==
  (last.op = "match" /\ ~last.o.moved
     /\ MatchedIndices(last.ms, MatchedValue(last.o)) = {}) =>
    /\ last.inv = <<>>
    /\ Unwrap(optB) = Resolved(Undefined)
    /\ PublicGet(optB, Undefined) = Rejected(NullError)

\* every key of c has a counterpart in v: a nested object of c is matched
\* key by key in the same way, any other value must be equal
RECURSIVE DeepPartialMatch(_, _)
DeepPartialMatch(c, v) ==
  \A key \in DOMAIN Fields(c) :
    /\ key \in DOMAIN Fields(v)
    /\ IF Fields(c)[key].k = "object" /\ Fields(v)[key].k = "object"
       THEN DeepPartialMatch(Fields(c)[key], Fields(v)[key])
       ELSE Fields(c)[key] = Fields(v)[key]

\* C17: for an object condition c and an object value v, when(c, ..).test(v)
\* is true exactly when every key of c, through nested objects, has an equal
\* counterpart in v: keys of v that c does not mention are ignored, a key of
\* c missing from v is a mismatch, and a mismatch in any sibling key of c
\* makes the test false.
C17_DeepPartialMatch ==
  last.op = "partialTest" => (last.res <=> DeepPartialMatch(last.c, last.v))

\* ------------------------------------------------------ properties of Result

\* a Result on the Ok path, on the error path
OnOkPath(o) == o.res /\ Filled(o) /\ ~InstanceOf(o.value.v, "RuntimeError")

OnErrPath(o) == o.res /\ Filled(o) /\ InstanceOf(o.value.v, "RuntimeError")

\* C18 as stated: mapOk(m) and mapErr(m) transform only their own side. On
\* ok(v), mapOk(m) yields a Result whose get() resolves to the peeled m(v),
\* and mapErr(m) never invokes m and yields a Result whose get() resolves to
\* v. On err(e), mapOk(m) never invokes m and yields a Result whose get()
\* rejects with the same e, and mapErr(m) yields a Result whose get() rejects
\* with m(e).
C18_MapOwnSideOnly ==
  /\ (last.op = "mapOk" /\ OnOkPath(last.o) /\ last.fun.t.shape \in PeeledShapes) =>
       /\ optB.res
       /\ PublicGet(optB, Undefined) = Resolved(App(last.fun.t.name, last.o.value.v))
  /\ (last.op = "mapErr" /\ OnOkPath(last.o)) =>
       /\ CallsOf(last.inv, 2) = <<>>
       /\ optB.res
       /\ PublicGet(optB, Undefined) = Resolved(last.o.value.v)
  /\ (last.op = "mapOk" /\ OnErrPath(last.o)) =>
       /\ CallsOf(last.inv, 1) = <<>>
       /\ optB.res
       /\ PublicGet(optB, Undefined) = Rejected(last.o.value.v)
  /\ (last.op = "mapErr" /\ OnErrPath(last.o) /\ last.fun.h = "const") =>
       /\ CallsOf(last.inv, 2) = <<[i |-> 2, arg |-> last.o.value.v]>>
       /\ optB.res
       /\ PublicGet(optB, Undefined) = Rejected(ToPromise(last.fun.v).v)

\* C18, amended: as stated, but on ok(v) the Result of mapErr(m) resolves to
\* v only when v is not itself an Optional; an Optional v comes back with its
\* outer layer peeled, that is as the value v holds.
C18_MapOwnSidePlain ==
  /\ (last.op = "mapOk" /\ OnOkPath(last.o) /\ last.fun.t.shape \in PeeledShapes) =>
       /\ optB.res
       /\ PublicGet(optB, Undefined) = Resolved(App(last.fun.t.name, last.o.value.v))
  /\ (last.op = "mapErr" /\ OnOkPath(last.o)) =>
       /\ CallsOf(last.inv, 2) = <<>>
       /\ optB.res
       /\ PublicGet(optB, Undefined) =
            IF isOptional(last.o.value.v)
            THEN PublicGet(last.o.value.v.o, Undefined)
            ELSE Resolved(last.o.value.v)
  /\ (last.op = "mapOk" /\ OnErrPath(last.o)) =>
       /\ CallsOf(last.inv, 1) = <<>>
       /\ optB.res
       /\ PublicGet(optB, Undefined) = Rejected(last.o.value.v)
  /\ (last.op = "mapErr" /\ OnErrPath(last.o) /\ last.fun.h = "const") =>
       /\ CallsOf(last.inv, 2) = <<[i |-> 2, arg |-> last.o.value.v]>>
       /\ optB.res
       /\ PublicGet(optB, Undefined) = Rejected(ToPromise(last.fun.v).v)

\* an error mapped by mapErr: the Result rejects with the mapper's error
C18_Witness ==
  /\ last.op = "mapErr"
  /\ last.o = err(Inst("TestError", 1))
  /\ last.fun = Constant(Inst("TestError", 2))
  /\ CallsOf(last.inv, 2) = <<[i |-> 2, arg |-> Inst("TestError", 1)]>>
  /\ PublicGet(optB, Undefined) = Rejected(Inst("TestError", 2))

\* C19: Result.ok(fun) on ok(v) returns a plain Optional whose get() resolves
\* to fun(v); on a Result on the error path it never invokes fun and returns
\* an Optional whose get() without a default rejects with NullError, not
\* with the carried error.
C19_OkQuickPath ==
  /\ (last.op = "ok" /\ OnOkPath(last.o) /\ last.fun.t.shape \in PeeledShapes) =>
       /\ ~optB.res
       /\ PublicGet(optB, Undefined) = Resolved(App(last.fun.t.name, last.o.value.v))
  /\ (last.op = "ok" /\ OnErrPath(last.o)) =>
       /\ CallsOf(last.inv, 1) = <<>>
       /\ ~optB.res
       /\ PublicGet(optB, Undefined) = Rejected(NullError)

\* ok(fun) on err(e): fun is not called, only the pass-through rule of mapOk
\* is, and the Optional returned rejects with NullError
C19_Witness ==
  /\ last.op = "ok"
  /\ last.o = err(Inst("TestError", 1))
  /\ last.inv = <<[i |-> 2, arg |-> Inst("TestError", 1)]>>
  /\ ~optB.res
  /\ PublicGet(optB, Undefined) = Rejected(NullError)

\* C20: Result.err(fun) returns a promise that always resolves and never
\* rejects, on both paths and also when fun fails; fun is invoked exactly
\* once with the carried error on the error path and never on the Ok path.
C20_ErrAlwaysResolves ==
  last.op = "err" =>
    /\ last.res.st = "resolved"
    /\ OnErrPath(last.o) =>
         CallsOf(last.inv, 1) = <<[i |-> 1, arg |-> last.o.value.v]>>
    /\ OnOkPath(last.o) => CallsOf(last.inv, 1) = <<>>

\* err(fun) on err(e) with a fun that throws: called once, the promise resolves
C20_Witness ==
  /\ last.op = "err"
  /\ last.o = err(Inst("TestError", 1))
  /\ last.fun.t.shape = "throw"
  /\ CallsOf(last.inv, 1) = <<[i |-> 1, arg |-> Inst("TestError", 1)]>>
  /\ last.res = Resolved(Undefined)

\* ------------------------------------------------------- properties of block

\* the outcome of get() on the Optional block resolved to
BlockGet == PublicGet(last.out.v.o, Undefined)

\* C12: block resolves to an empty Optional, whose get() rejects with
\* NullError, when a just call aborted the executor; when the executor
\* returns r it resolves to r.toOptional() if r is a Result (an Err result
\* becomes empty), to r itself if r is an Optional, and to optional(r) if r
\* is a raw value.
C12_BlockResult ==
  /\ (last.op = "just" /\ last.res = Rejected(NullError)) =>
       /\ last.out.st = "resolved"
       /\ Empty(last.out.v.o)
       /\ BlockGet = Rejected(NullError)
  /\ (last.op = "return" /\ isResult(last.value)) =>
       /\ last.out = Resolved(OptObj(toOptional(last.value.o, Undefined).opt))
       /\ ~last.out.v.o.res
       /\ OnErrPath(last.value.o) => BlockGet = Rejected(NullError)
       /\ OnOkPath(last.value.o) => BlockGet = Resolved(last.value.o.value.v)
  /\ (last.op = "return" /\ isOptional(last.value) /\ ~isResult(last.value)) =>
       last.out = Resolved(last.value)
  /\ (last.op = "return" /\ ~isOptional(last.value)) =>
       /\ last.out = Resolved(OptObj(optional(last.value)))
       /\ BlockGet = IF IsNullish(last.value) THEN Rejected(NullError)
                     ELSE Resolved(last.value)

\* a second just call met an empty Optional: block resolved to empty
C12_Witness ==
  /\ last.op = "just"
  /\ steps = 2
  /\ last.value = OptObj(empty)
  /\ last.d = Undefined
  /\ last.out = Resolved(OptObj(empty))

\* C13: just(value, d) with a non-null d never aborts the block: for a
\* Result on the error path, for an absent Optional and for a raw
\* null/undefined alike, just resolves to d and the executor continues.
C13_DefaultNeverAborts ==
  (/\ last.op = "just"
   /\ ~IsNullish(last.d)
   /\ \/ IsNullish(last.value)
      \/ isResult(last.value) /\ OnErrPath(last.value.o)
      \/ isOptional(last.value) /\ ~isResult(last.value) /\ Empty(last.value.o)) =>
    /\ last.res = Resolved(last.d)
    /\ last.out = Running

\* C14: block turns into an empty Optional only the abort raised by its own
\* just; every other error raised inside the executor, a NullError or
\* ValueMovedError of a direct get() included, makes block reject with that
\* same error.
C14_OnlyJustAborts ==
  /\ (last.op \in {"directGet", "throw"} /\ last.res.st = "rejected") =>
       last.out = Rejected(last.res.v)
  /\ (last.op = "just" /\ last.res.st = "rejected"
        /\ ~InstanceOf(last.res.v, "NullError")) =>
       last.out = Rejected(last.res.v)

\* C21 as stated: toOptional(d) on ok(v) returns an Optional whose get()
\* resolves to v whatever d is; on err(e) the content of the error is
\* discarded: without d the Optional returned rejects get() with NullError,
\* not with e, and with a non-null d its get() resolves to d.
C21_ToOptional ==
  /\ (last.op = "toOptional" /\ OnOkPath(last.o)) =>
       /\ ~optB.res
       /\ PublicGet(optB, Undefined) = Resolved(last.o.value.v)
  /\ (last.op = "toOptional" /\ OnErrPath(last.o)) =>
       /\ ~optB.res
       /\ PublicGet(optB, Undefined) =
            IF IsNullish(last.d) THEN Rejected(NullError) ELSE Resolved(last.d)

\* C21, amended: as stated, but on ok(v) get() resolves to v only when v is
\* not itself an Optional; an Optional v comes back peeled, as what v holds.
C21_ToOptionalPlain ==
  /\ (last.op = "toOptional" /\ OnOkPath(last.o)) =>
       /\ ~optB.res
       /\ PublicGet(optB, Undefined) =
            IF isOptional(last.o.value.v)
            THEN PublicGet(last.o.value.v.o, Undefined)
            ELSE Resolved(last.o.value.v)
  /\ (last.op = "toOptional" /\ OnErrPath(last.o)) =>
       /\ ~optB.res
       /\ PublicGet(optB, Undefined) =
            IF IsNullish(last.d) THEN Rejected(NullError) ELSE Resolved(last.d)

\* toOptional(5) on err(e): the Optional returned resolves to 5
C21_Witness ==
  /\ last.op = "toOptional"
  /\ last.o = err(Inst("TestError", 1))
  /\ last.d = Num(5)
  /\ PublicGet(optB, Undefined) = Resolved(Num(5))

\* ------------------------------------------- properties of the control flows

\* the last two steps were x.coalesce(f).coalesce(g)
CoalesceChain ==
  /\ last.op = "coalesce"
  /\ last.on = "b"
  /\ last.first.op = "coalesce"
  /\ last.first.on = "a"

\* C22: one-shot coalesce rescue. In x.coalesce(f).coalesce(g) with x absent
\* or failed, g is never invoked whatever f() yields: when f() yields a
\* present v the chain resolves to v, when the substitute of f() is itself
\* absent the chain stays absent and get() rejects with NullError. When x is
\* filled with v, neither f nor g is invoked and the chain resolves to v.
C22_CoalesceOnce ==
  CoalesceChain =>
    /\ (Empty(last.first.o) \/ Failed(last.first.o)) =>
         /\ last.inv = <<>>
         /\ last.first.f.shape \in PeeledShapes =>
              PublicGet(optB, Undefined) = Resolved(App(last.first.f.name, Undefined))
         /\ last.first.f.shape = "undefined" =>
              PublicGet(optB, Undefined) = Rejected(NullError)
    /\ Filled(last.first.o) =>
         /\ last.first.inv = <<>>
         /\ last.inv = <<>>
         /\ PublicGet(optB, Undefined) = Resolved(last.first.o.value.v)

\* C23: otherwise(fun) invokes fun exactly when the receiver resolves absent
\* or failed, and the Optional returned then holds the peeled result of
\* fun(); when the receiver holds v, fun is never invoked and the Optional
\* returned is failed with v itself: get() without a default rejects with v
\* and unwrap() resolves to undefined.
C23_OtherwiseWhenAbsent ==
  last.op = "otherwise" =>
    /\ (last.inv # <<>>) <=> (Empty(last.o) \/ Failed(last.o))
    /\ Len(last.inv) <= 1
    /\ ((Empty(last.o) \/ Failed(last.o)) /\ last.f.shape \in PeeledShapes) =>
         PublicGet(optB, Undefined) = Resolved(App(last.f.name, Undefined))
    /\ Filled(last.o) =>
         /\ Failed(optB)
         /\ optB.value.v = last.o.value.v
         /\ PublicGet(optB, Undefined) = Rejected(last.o.value.v)
         /\ Unwrap(optB) = Resolved(Undefined)

\* otherwise on optional(1): fun is not called, get() rejects with 1
C23_Witness ==
  /\ last.op = "otherwise"
  /\ last.o = optional(Num(1))
  /\ last.inv = <<>>
  /\ PublicGet(optB, Undefined) = Rejected(Num(1))

\* C24: forEach(fun, d) never throws and its promise never rejects, in any
\* state and also when fun throws or rejects; fun is invoked exactly once,
\* with the value or with d, when a value is available or defaulted, and not
\* at all when the Optional is empty, failed or moved and no default is given.
C24_ForEachSwallows ==
  last.op = "forEach" =>
    /\ last.settled = Resolved(Undefined)
    /\ last.inv = IF Filled(last.o) THEN <<last.o.value.v>>
                  ELSE IF ~IsNullish(last.d) THEN <<last.d>>
                  ELSE <<>>

\* forEach on a filled Optional with a fun that throws: called once, resolved
C24_Witness ==
  /\ last.op = "forEach"
  /\ last.o = optional(Num(1))
  /\ last.into = "throws"
  /\ last.inv = <<Num(1)>>
  /\ last.settled = Resolved(Undefined)

\* ------------------------------------------- properties of a failing promise

\* C25 as stated: when the dispatcher is called with a pending value that
\* rejects, no matcher is tested and no handler invoked; if a default was
\* supplied the promise of the dispatcher resolves to it, otherwise it
\* rejects with the original reason.
C25_PendingFailure ==
  (last.op = "matchPending" /\ last.p.st = "rejected") =>
    /\ last.res.inv = <<>>
    /\ last.res.out = IF last.d # Undefined THEN Resolved(last.d)
                      ELSE Rejected(last.p.v)

\* C25, amended: the default replaces the failure only when it is neither
\* undefined nor null; with a null default the promise rejects with the
\* original reason, as it does with none.
C25_PendingFailureNonNull ==
  (last.op = "matchPending" /\ last.p.st = "rejected") =>
    /\ last.res.inv = <<>>
    /\ last.res.out = IF ~IsNullish(last.d) THEN Resolved(last.d)
                      ELSE Rejected(last.p.v)

\* a promise rejecting with a reason the first matcher would accept, and a
\* default: the default is the answer and the handler is not called
C25_Witness ==
  /\ last.op = "matchPending"
  /\ last.p = Rejected(Num(1))
  /\ last.d = Num(5)
  /\ 1 \in MatchedIndices(last.ms, last.p.v)
  /\ last.res.inv = <<>>
  /\ last.res.out = Resolved(Num(5))

\* the operands of the last concat, the receiver first
Operands == <<last.o>> \o last.others

\* C26 as stated: a.concat(b1..bn).get() resolves to the array of the
\* operands' values in argument order when every operand is filled; when any
\* operand is absent the combination is absent and get() rejects with
\* NullError.
C26_ConcatAll ==
  last.op = "concat" =>
    /\ (\A i \in 1..Len(Operands) : Filled(Operands[i])) =>
         PublicGet(optB, Undefined) =
           Resolved(Arr([i \in 1..Len(Operands) |-> Operands[i].value.v]))
    /\ (\E i \in 1..Len(Operands) : Empty(Operands[i])) =>
         PublicGet(optB, Undefined) = Rejected(NullError)

\* C26, amended: the operands are looked at in the order a, b1, .., bn, and
\* the first one that is not filled decides: when it is absent the
\* combination rejects get() with NullError; an absent operand after a
\* failed or moved one does not.
C26_ConcatFirstUnfilled ==
  last.op = "concat" =>
    /\ (\A i \in 1..Len(Operands) : Filled(Operands[i])) =>
         PublicGet(optB, Undefined) =
           Resolved(Arr([i \in 1..Len(Operands) |-> Operands[i].value.v]))
    /\ \A i \in 1..Len(Operands) :
         ((\A j \in 1..(i - 1) : Filled(Operands[j])) /\ ~Filled(Operands[i])) =>
           PublicGet(optB, Undefined) = Get(Operands[i], Undefined, FALSE)

\* three filled operands give the array of their values in order
C26_Witness ==
  /\ last.op = "concat"
  /\ last.o = optional(Num(1))
  /\ last.others = <<optional(Num(2)), optional(Num(1))>>
  /\ PublicGet(optB, Undefined) = Resolved(Arr(<<Num(1), Num(2), Num(1)>>))

\* ------------------------------------------------------ properties of errors

\* C27: error-kind names are unique process-wide. Over any sequence of
\* ExtendRuntimeError calls the first call for a name succeeds, and every
\* later call with a registered name throws at definition time and leaves
\* the registry unchanged; instances of a created kind carry that name and
\* the default message and are instances of their own kind only.
C27_UniqueErrorNames ==
  /\ \A i, j \in 1..Len(classes) : classes[i].name = classes[j].name => i = j
  /\ registeredErrors = {classes[i].name : i \in 1..Len(classes)}
  /\ last.op = "extend" =>
       IF last.name \in last.before
       THEN /\ last.out = Thrown(Obj("Error", [x \in {} |-> Undefined]))
            /\ registeredErrors = last.before
            /\ Len(classes) = last.made
       ELSE /\ last.out = Returned(ErrorClass(last.name, last.message))
            /\ registeredErrors = last.before \cup {last.name}
            /\ classes[Len(classes)] = last.out.v
  /\ (last.op = "new" /\ ~last.given) =>
       /\ last.instance.name = classes[last.kind].name
       /\ last.instance.message = classes[last.kind].message
       /\ \A c \in 1..Len(classes) :
            InstanceOfKind(last.instance, c) <=> c = last.kind

\* a second call with a registered name, after two kinds were made: it throws
C27_Witness ==
  /\ last.op = "extend"
  /\ last.name = "TestAPIError"
  /\ last.before = {"TestAPIError", "TestStateError"}
  /\ last.out.st = "thrown"
  /\ Len(classes) = 2

\* ------------------------------------------------------- properties of Async

\* the promise the mounted component was handed last
Current == promises[props.promise]

\* C28: Async, and Unwrap which feeds it optional.get(default), renders
\* children while the promise is unsettled; once the promise resolved with
\* any v it renders then(v) when then is supplied, once it rejected with any
\* e it renders catch(e) when catch is supplied, and it keeps rendering
\* children when the callback for the outcome is omitted. After the cleanup
\* of the effect has run, a later settlement of the old promise never
\* updates the state.
C28_AsyncRenders ==
  /\ props.mounted =>
       /\ Current.out = Pending => Rendered = Children
       /\ (Current.delivered /\ Current.out.st = "resolved") =>
            Rendered = IF props.then THEN App("then", Current.out.v) ELSE Children
       /\ (Current.delivered /\ Current.out.st = "rejected") =>
            Rendered = IF props.catch THEN App("catch", Current.out.v) ELSE Children
  /\ (last.op = "deliver" /\ last.cancelled) => asyncResult = last.before

\* ------------------------------------------------- properties of resultBlock

\* C29: when the just of resultBlock is handed a Result on the error path
\* carrying e, the executor is aborted and resultBlock resolves to an Err
\* Result carrying that same e; when the executor raises any other error x,
\* resultBlock rejects with x itself; when the executor completes,
\* resultBlock resolves to the returned Result, or to ok(r) for a raw return
\* value r.
C29_ResultBlock ==
  /\ (last.op = "resultJust" /\ OnErrPath(last.value.o)) =>
       /\ last.out.st = "resolved"
       /\ isResult(last.out.v)
       /\ OnErrPath(last.out.v.o)
       /\ last.out.v.o.value.v = last.value.o.value.v
  /\ last.op = "resultThrow" => last.out = Rejected(last.value)
  /\ last.op = "resultReturn" =>
       /\ last.out.st = "resolved"
       /\ isResult(last.out.v)
       /\ isResult(last.value) => last.out.v = last.value
       /\ ~isResult(last.value) => last.out.v.o = ok(last.value)

\* ------------------------------------------- properties of Result: absence

\* C30: the Ok-side transformation of a Result runs only for present,
\* non-error values: on an empty Result mapOk(m) never invokes m and the
\* Result it returns is empty.
C30_MapOkSkipsEmpty ==
  (last.op = "mapOk" /\ last.o.res /\ Empty(last.o)) =>
    /\ CallsOf(last.inv, 1) = <<>>
    /\ optB.res
    /\ Empty(optB)
====
